---- MODULE Spec2Model ----
(***************************************************************************)
(* Model of neomodel/util.py: the thread-local Database object (connection,*)
(* session and transaction references), the cypher_query executor with its *)
(* two retry layers, and the TransactionProxy scope.                       *)
(*                                                                         *)
(* The neo4j driver is the environment: every driver call that can fail    *)
(* (begin_transaction, commit, rollback, run) draws its outcome with \E.   *)
(* Python's None is modelled by 0 for handles, ids and pids, by NoUrl for  *)
(* the url and by NoBookmarks for bookmarks.                               *)
(***************************************************************************)
EXTENDS Integers, Sequences, FiniteSets, TLC

\* ---------------------------------------------------------------- bounds
\* Sessions/transactions the driver hands out in one behaviour.
MaxTx == 2
\* Forks followed in one behaviour (the model follows the child process).
MaxForks == 1

\* ------------------------------------------------------------- constants
\* @retry(..., tries=4, delay=0) on cypher_query.
RetryTries == 4

\* Threads that own a Database instance (threading.local state).
AllThreads == {1, 2}
\* Threads that take steps under Spec.
MainThreads == {1}

\* --------------------------------------------------------------- values
\* A connection URL after urlparse: its scheme, whether the netloc holds
\* "user:password@", and the path stripped of "/".
NoUrl == [scheme |-> "", cred |-> FALSE, path |-> ""]
Urls ==
    { [scheme |-> "bolt", cred |-> TRUE,  path |-> "mydb"],
      [scheme |-> "http", cred |-> TRUE,  path |-> ""],
      [scheme |-> "bolt", cred |-> FALSE, path |-> ""] }

valid_schemas ==
    {"bolt", "bolt+s", "bolt+ssc", "bolt+routing", "neo4j", "neo4j+s", "neo4j+ssc"}

DEFAULT_DATABASE == "neo4j"

AccessModes == {"None", "READ", "WRITE"}

\* Bookmarks: a bookmark is the id of the transaction whose commit made it.
NoBookmarks == << >>

\* Errors that leave an operation ("none": the operation returned).
TransientErrors == {"SessionExpired", "ServiceUnavailable"}

\* What session.run() does: it returns rows, raises a transient connectivity
\* error, or raises ClientError with a code and a message.
ConstraintCode == "Neo.ClientError.Schema.ConstraintValidationFailed"
OtherCode == "Neo.ClientError.Statement.SyntaxError"
ClientErrors ==
    { [kind |-> "ClientError", code |-> c, unique |-> u] :
        c \in {ConstraintCode, OtherCode}, u \in BOOLEAN }
RunOutcomes ==
    { [kind |-> k, code |-> "", unique |-> FALSE] : k \in {"ok"} \cup TransientErrors }
    \cup ClientErrors
NoOutcome == [kind |-> "none", code |-> "", unique |-> FALSE]

\* What the body of a with-block raises: the exception's exact type and, for
\* the driver's errors, its code. ConstraintError is a subclass of ClientError.
BodyErrors ==
    { [type |-> "ClientError",     code |-> ConstraintCode],
      [type |-> "ClientError",     code |-> OtherCode],
      [type |-> "ConstraintError", code |-> ConstraintCode],
      [type |-> "ValueError",      code |-> ""],
      [type |-> "ServiceUnavailable", code |-> ""] }
NoBodyErr == [type |-> "none", code |-> ""]

\* Result cells: a primitive, a raw node, a raw relationship, a list, or an
\* object made by inflate.
Cell(k, labels, cls, items) == [k |-> k, labels |-> labels, cls |-> cls, items |-> items]
Prim == Cell("prim", {}, "", << >>)
RawNode(labels) == Cell("node", labels, "", << >>)
RawRel(type) == Cell("rel", {type}, "", << >>)
List(items) == Cell("list", {}, "", items)
\* cls.inflate(raw)
Inflate(cls, raw) == Cell("obj", raw.labels, cls, << >>)

\* NodeClassRegistry._NODE_CLASS_REGISTRY: frozenset of labels -> class.
NODE_CLASS_REGISTRY ==
    ({"Person"} :> "Person") @@ ({"KNOWS"} :> "Knows")

\* The rows the server returns for the query.
ServerRows == << << RawNode({"Person"}), Prim >> >>

VARIABLES
    db,          \* db[t]: thread t's Database attributes
    txs,         \* txs[i]: status of driver transaction i
    nextId,      \* next session/transaction id the driver hands out
    curpid,      \* os.getpid() of the process the model follows
    proxy,       \* the TransactionProxy object
    scope,       \* scope[t]: the with-block thread t is in
    qry,         \* qry[t]: the cypher_query call thread t is in
    last,        \* what the most recent operation did and how it ended
    pure         \* a pure function under examination: its argument and result

vars == <<db, txs, nextId, curpid, proxy, scope, qry, last, pure>>

\* ----------------------------------------------------- Database.__init__
NewDatabase ==
    [ url |-> NoUrl, driver |-> 0, session |-> 0, active_transaction |-> 0,
      pid |-> 0, database_name |-> DEFAULT_DATABASE ]

\* ------------------------------------------------- Database.set_connection
\* The URL is accepted iff the netloc holds "@" and the scheme is allowed.
ValidUrl(u) == u.cred /\ u.scheme \in valid_schemas

\* set_connection that stores the URL and drops the transaction reference
\* before it validates the URL.
set_connection_storing_first(d, u, p) ==
    IF ValidUrl(u)
    THEN [ err |-> "none",
           db  |-> [ d EXCEPT !.driver = p, !.url = u, !.pid = p,
                              !.active_transaction = 0,
                              !.database_name =
                                  IF u.path = "" THEN DEFAULT_DATABASE ELSE u.path ] ]
    ELSE [ err |-> "ValueError",
           db  |-> [ d EXCEPT !.url = u, !.active_transaction = 0 ] ]

\* Returns the error raised ("none" if it returned) and the new attributes.
\* The driver handle is identified by the process that created it.
set_connection(d, u, p) ==
    IF ValidUrl(u)
    THEN [ err |-> "none",
           db  |-> [ d EXCEPT !.driver = p,
                              !.url = u,
                              !.pid = p,
                              !.active_transaction = 0,
                              !.database_name =
                                  IF u.path = "" THEN DEFAULT_DATABASE ELSE u.path ] ]
    ELSE [ err |-> "ValueError", db |-> d ]

\* ------------------------------------------------------ ensure_connection
\* cfg: the value of config.DATABASE_URL when the wrapper reads it.
ensure_connection(d, p, cfg) ==
    IF d.url = NoUrl
    THEN set_connection(d, cfg, p)
    ELSE [ err |-> "none", db |-> d ]

\* The values config.DATABASE_URL may hold when the wrapper reads it; it is
\* read only while no url is set.
ConfigUrls(d) == IF d.url = NoUrl THEN Urls ELSE { NoUrl }

\* ------------------------------------------------------------ observation
\* The record of the most recent operation: who ran it, how it ended, the
\* process of the driver handle it used on the network (0: none used), the
\* error the driver's begin_transaction/commit/rollback raised, and the
\* operation's own arguments and results.
MkLast(t, op, err) ==
    [ t |-> t, op |-> op, err |-> err, handle |-> 0, drv |-> "none", ret |-> 0,
      am |-> "None", bm |-> NoBookmarks,
      hu |-> FALSE, ro |-> FALSE, roe |-> FALSE,
      outcome |-> NoOutcome, rows |-> << >>, layer |-> "none",
      body_err |-> NoBodyErr, scope_tx |-> 0 ]

\* ---------------------------------------------------------- Database.begin
\* out: what session.begin_transaction() does; id: the session the driver
\* hands out. made: a session was created; opened: its transaction was begun.
\* begin without the "Transaction in progress" check.
begin_unchecked(d, p, cfg, out, id) ==
    LET e == ensure_connection(d, p, cfg) IN
    IF e.err # "none"
    THEN [ err |-> e.err, db |-> e.db, handle |-> 0, made |-> FALSE, opened |-> FALSE ]
    ELSE IF out = "none"
    THEN [ err |-> "none",
           db |-> [ e.db EXCEPT !.session = id, !.active_transaction = id ],
           handle |-> e.db.driver, made |-> TRUE, opened |-> TRUE ]
    ELSE [ err |-> out,
           db |-> [ e.db EXCEPT !.session = id ],
           handle |-> e.db.driver, made |-> TRUE, opened |-> FALSE ]

begin(d, p, cfg, out, id) ==
    LET e == ensure_connection(d, p, cfg) IN
    IF e.err # "none"
    THEN [ err |-> e.err, db |-> e.db, handle |-> 0, made |-> FALSE, opened |-> FALSE ]
    ELSE IF e.db.active_transaction # 0
    THEN [ err |-> "SystemError", db |-> e.db, handle |-> 0,
           made |-> FALSE, opened |-> FALSE ]
    ELSE IF out = "none"
    THEN [ err |-> "none",
           db |-> [ e.db EXCEPT !.session = id, !.active_transaction = id ],
           handle |-> e.db.driver, made |-> TRUE, opened |-> TRUE ]
    ELSE [ err |-> out,
           db |-> [ e.db EXCEPT !.session = id ],
           handle |-> e.db.driver, made |-> TRUE, opened |-> FALSE ]

\* --------------------------------------------------------- Database.commit
\* out: what transaction.commit() does. The finally clause clears both
\* references on every path past ensure_connection.
\* commit that clears the references after the try block instead of in a
\* finally clause: a raising commit skips the cleanup.
commit_without_finally(d, p, cfg, out) ==
    LET e == ensure_connection(d, p, cfg)
        cleared == [ e.db EXCEPT !.active_transaction = 0, !.session = 0 ]
        tx == e.db.active_transaction
    IN
    IF e.err # "none"
    THEN [ err |-> e.err, db |-> e.db, handle |-> 0, ret |-> 0, tx |-> 0, status |-> "" ]
    ELSE IF tx = 0
    THEN [ err |-> "AttributeError", db |-> e.db, handle |-> 0, ret |-> 0,
           tx |-> 0, status |-> "" ]
    ELSE IF out = "none"
    THEN [ err |-> "none", db |-> cleared, handle |-> e.db.driver, ret |-> tx,
           tx |-> tx, status |-> "committed" ]
    ELSE [ err |-> out, db |-> e.db, handle |-> e.db.driver, ret |-> 0,
           tx |-> tx, status |-> "failed" ]

commit(d, p, cfg, out) ==
    LET e == ensure_connection(d, p, cfg)
        cleared == [ e.db EXCEPT !.active_transaction = 0, !.session = 0 ]
        tx == e.db.active_transaction
    IN
    IF e.err # "none"
    THEN [ err |-> e.err, db |-> e.db, handle |-> 0, ret |-> 0, tx |-> 0, status |-> "" ]
    ELSE IF tx = 0
    THEN [ err |-> "AttributeError", db |-> cleared, handle |-> 0, ret |-> 0,
           tx |-> 0, status |-> "" ]
    ELSE IF out = "none"
    THEN [ err |-> "none", db |-> cleared, handle |-> e.db.driver, ret |-> tx,
           tx |-> tx, status |-> "committed" ]
    ELSE [ err |-> out, db |-> cleared, handle |-> e.db.driver, ret |-> 0,
           tx |-> tx, status |-> "failed" ]

\* ------------------------------------------------------- Database.rollback
rollback(d, p, cfg, out) ==
    LET e == ensure_connection(d, p, cfg)
        cleared == [ e.db EXCEPT !.active_transaction = 0, !.session = 0 ]
        tx == e.db.active_transaction
    IN
    IF e.err # "none"
    THEN [ err |-> e.err, db |-> e.db, handle |-> 0, tx |-> 0, status |-> "" ]
    ELSE IF tx = 0
    THEN [ err |-> "AttributeError", db |-> cleared, handle |-> 0, tx |-> 0, status |-> "" ]
    ELSE IF out = "none"
    THEN [ err |-> "none", db |-> cleared, handle |-> e.db.driver,
           tx |-> tx, status |-> "rolled_back" ]
    ELSE [ err |-> out, db |-> cleared, handle |-> e.db.driver,
           tx |-> tx, status |-> "failed" ]

\* The driver's transaction table after transaction tx ended with status.
EndTx(tx, status) ==
    IF tx = 0 THEN txs ELSE [ txs EXCEPT ![tx] = status ]

\* Outcomes of a driver call that may fail on the network.
DriverOutcomes == {"none"} \cup TransientErrors

\* What the driver call of an operation with result r raised: out if the
\* operation reached the driver, "none" if it never called it.
Drv(r, out) == IF r.handle # 0 THEN out ELSE "none"

\* Bookmarks a caller can hold: those that commits have produced.
Produced == { i \in 1..MaxTx : txs[i] = "committed" }
BookmarkArgs == { NoBookmarks } \cup { <<b>> : b \in Produced }

\* ---------------------------------------------- Database._object_resolution
\* Returns the error raised ("none" if it returned), the rows and, on error,
\* the raw entity the error carries. Rows and cells are visited in order and
\* the first failing cell ends the walk.
RECURSIVE object_resolution(_)
\* ResolveCell whose KeyError handler raises nothing: the cell without a
\* registered class is left in place.
ResolveCell_swallowing_KeyError(c) ==
    CASE c.k \in {"node", "rel"} ->
           IF c.labels \in DOMAIN NODE_CLASS_REGISTRY
           THEN [ err |-> "none", v |-> Inflate(NODE_CLASS_REGISTRY[c.labels], c) ]
           ELSE [ err |-> "none", v |-> c ]
      [] c.k = "list" ->
           LET r == object_resolution(<< c.items >>) IN
           [ err |-> "none", v |-> List(<< List(r.rows[1]) >>) ]
      [] OTHER -> [ err |-> "none", v |-> c ]

ResolveCell(c) ==
    CASE c.k = "node" ->
           IF c.labels \in DOMAIN NODE_CLASS_REGISTRY
           THEN [ err |-> "none", v |-> Inflate(NODE_CLASS_REGISTRY[c.labels], c) ]
           ELSE [ err |-> "NodeClassNotDefined", v |-> c ]
      [] c.k = "rel" ->
           IF c.labels \in DOMAIN NODE_CLASS_REGISTRY
           THEN [ err |-> "none", v |-> Inflate(NODE_CLASS_REGISTRY[c.labels], c) ]
           ELSE [ err |-> "RelationshipClassNotDefined", v |-> c ]
      [] c.k = "list" ->
           \* resolved_object = self._object_resolution([cell]): the one-row
           \* batch that comes back is what is stored in the cell.
           LET r == object_resolution(<< c.items >>) IN
           IF r.err = "none"
           THEN [ err |-> "none", v |-> List(<< List(r.rows[1]) >>) ]
           ELSE [ err |-> r.err, v |-> r.v ]
      [] OTHER -> [ err |-> "none", v |-> c ]

object_resolution(rows) ==
    LET res == [ i \in 1..Len(rows) |-> [ j \in 1..Len(rows[i]) |-> ResolveCell(rows[i][j]) ] ]
        bad == UNION { { <<i, j>> : j \in { c \in 1..Len(rows[i]) : res[i][c].err # "none" } } :
                         i \in 1..Len(rows) }
        first == CHOOSE ij \in bad :
                   \A kl \in bad : ij[1] < kl[1] \/ (ij[1] = kl[1] /\ ij[2] <= kl[2])
    IN
    IF bad = {}
    THEN [ err |-> "none",
           rows |-> [ i \in 1..Len(rows) |-> [ j \in 1..Len(rows[i]) |-> res[i][j].v ] ],
           v |-> Prim ]
    ELSE [ err |-> res[first[1]][first[2]].err, rows |-> rows,
           v |-> res[first[1]][first[2]].v ]

\* --------------------------------- Database.cypher_query: except ClientError
\* The error raised for ClientError o under handle_unique hu. "ClientError"
\* stands for the original exception re-raised.
\* classify that tests the message alone and ignores handle_unique.
classify_ignoring_handle_unique(o, hu) ==
    IF o.code = ConstraintCode
    THEN IF o.unique THEN "UniqueProperty" ELSE "ConstraintValidationFailed"
    ELSE "ClientError"

classify(o, hu) ==
    IF o.code = ConstraintCode
    THEN IF o.unique /\ hu THEN "UniqueProperty" ELSE "ConstraintValidationFailed"
    ELSE "ClientError"

\* ----------------------------------------------------------------- frames
\* The cypher_query call a thread is in: its arguments, the retry layer that
\* is running (outer: the caller's call; inner: the re-invocation made by the
\* except clause), the tries each @retry loop has left, and counters.
NoQuery ==
    [ active |-> FALSE, pc |-> "idle", hu |-> FALSE, ro |-> FALSE, roe |-> FALSE,
      layer |-> "outer", outer_tries |-> 0, inner_tries |-> 0,
      execs |-> 0, inner_execs |-> 0, in_tx |-> 0, target |-> 0, escaped |-> FALSE ]

\* The thread is in no with-block and in no call of a bookmarking wrapper.
\* pc is the wrapper call's position; arg the bookmarks passed to the call,
\* used the ones its transaction was begun with, own what its commit returned.
NoScope ==
    [ inside |-> FALSE, tx |-> 0, pc |-> "none",
      arg |-> NoBookmarks, used |-> NoBookmarks, own |-> 0 ]

\* TransactionProxy.__init__ (bookmarks is the class attribute None).
NewProxy(am) == [ access_mode |-> am, bookmarks |-> NoBookmarks, last_bookmark |-> 0 ]

\* A thread is between operations, free to start one.
Ready(t) == ~qry[t].active
\* ... and outside every with-block.
Outside(t) == Ready(t) /\ ~scope[t].inside

\* No pure function is under examination.
NoPure == [ fn |-> "none" ]

\* -------------------------------------------------------------------- Init
\* The state after construction of the module-level objects.
InitProgram ==
    /\ db = [ t \in AllThreads |-> NewDatabase ]
    /\ txs = [ i \in 1..MaxTx |-> "none" ]
    /\ nextId = 1
    /\ curpid = 1
    /\ proxy = NewProxy("None")
    /\ scope = [ t \in AllThreads |-> NoScope ]
    /\ qry = [ t \in AllThreads |-> NoQuery ]
    /\ last = MkLast(0, "init", "none")

Init == InitProgram /\ pure = NoPure

\* ----------------------------------------------- class Database(local, ...)
\* Database whose attributes are shared by all threads.
SharedStore(t, d) == [ u \in AllThreads |-> d ]

\* Thread t's attributes become d: Database derives from threading.local,
\* so an assignment to self.x writes the calling thread's own attribute set.
LocalStore(t, d) == [ db EXCEPT ![t] = d ]

\* ----------------------------------------------------------------- actions
\* A direct call of db.set_connection(url).
SetConnection(t) ==
    /\ Outside(t)
    /\ \E u \in Urls :
         LET r == set_connection(db[t], u, curpid) IN
         /\ db' = LocalStore(t, r.db)
         /\ last' = MkLast(t, "set_connection", r.err)
    /\ UNCHANGED <<txs, nextId, curpid, proxy, scope, qry, pure>>

\* A direct call of db.begin(access_mode, bookmarks=...).
BeginWith(t, am, bm) ==
    /\ Outside(t)
    /\ \E out \in DriverOutcomes, cfg \in ConfigUrls(db[t]) :
         LET r == begin(db[t], curpid, cfg, out, nextId) IN
         /\ r.made => nextId <= MaxTx
         /\ db' = LocalStore(t, r.db)
         /\ txs' = IF r.opened THEN [ txs EXCEPT ![nextId] = "open" ] ELSE txs
         /\ nextId' = IF r.made THEN nextId + 1 ELSE nextId
         /\ last' = [ MkLast(t, "begin", r.err) EXCEPT
                        !.handle = r.handle, !.drv = Drv(r, out),
                        !.am = am, !.bm = bm ]
    /\ UNCHANGED <<curpid, proxy, scope, qry, pure>>

Begin(t) ==
    \E am \in AccessModes, bm \in BookmarkArgs : BeginWith(t, am, bm)

\* A direct call of db.commit().
Commit(t) ==
    /\ Outside(t)
    /\ \E out \in DriverOutcomes, cfg \in ConfigUrls(db[t]) :
         LET r == commit(db[t], curpid, cfg, out) IN
         /\ db' = LocalStore(t, r.db)
         /\ txs' = EndTx(r.tx, r.status)
         /\ last' = [ MkLast(t, "commit", r.err) EXCEPT
                        !.handle = r.handle, !.drv = Drv(r, out), !.ret = r.ret ]
    /\ UNCHANGED <<nextId, curpid, proxy, scope, qry, pure>>

\* A direct call of db.rollback().
Rollback(t) ==
    /\ Outside(t)
    /\ \E out \in DriverOutcomes, cfg \in ConfigUrls(db[t]) :
         LET r == rollback(db[t], curpid, cfg, out) IN
         /\ db' = LocalStore(t, r.db)
         /\ txs' = EndTx(r.tx, r.status)
         /\ last' = [ MkLast(t, "rollback", r.err) EXCEPT
                        !.handle = r.handle, !.drv = Drv(r, out) ]
    /\ UNCHANGED <<nextId, curpid, proxy, scope, qry, pure>>

\* os.fork(): the model follows the child, which inherits a copy of the
\* thread's Database attributes and a new process id.
Fork(t) ==
    /\ Ready(t)
    /\ curpid <= MaxForks
    /\ curpid' = curpid + 1
    /\ last' = MkLast(t, "fork", "none")
    /\ UNCHANGED <<db, txs, nextId, proxy, scope, qry, pure>>

\* --------------------------------------------------- Database.cypher_query
\* The caller's call: cypher_query(query, params, handle_unique,
\* retry_on_session_expire, resolve_objects) enters the outer @retry loop.
QueryCallWith(t, hu, ro, roe) ==
    /\ Ready(t)
    /\ qry' = [ qry EXCEPT ![t] =
                  [ NoQuery EXCEPT !.active = TRUE, !.pc = "enter",
                                   !.hu = hu, !.ro = ro, !.roe = roe,
                                   !.outer_tries = RetryTries,
                                   !.in_tx = db[t].active_transaction ] ]
    /\ last' = [ MkLast(t, "cypher_query", "pending") EXCEPT
                   !.hu = hu, !.ro = ro, !.roe = roe ]
    /\ UNCHANGED <<db, txs, nextId, curpid, proxy, scope, pure>>

QueryCall(t) ==
    \E hu \in BOOLEAN, ro \in BOOLEAN, roe \in BOOLEAN : QueryCallWith(t, hu, ro, roe)

\* The call ends: it returns rows (err = "none") or raises err to the caller.
Finish(t, q, err, rows, o, handle) ==
    /\ qry' = [ qry EXCEPT ![t] = NoQuery ]
    /\ last' = [ MkLast(t, "cypher_query", err) EXCEPT
                   !.hu = q.hu, !.ro = q.ro, !.roe = q.roe,
                   !.outcome = o, !.rows = rows, !.layer = q.layer,
                   !.handle = handle ]

\* The flags of the invocation that is running: the re-invocation passes
\* handle_unique on, retry_on_session_expire=False, and nothing else.
CurRoe(q) == IF q.layer = "outer" THEN q.roe ELSE FALSE
CurRo(q) == IF q.layer = "outer" THEN q.ro ELSE FALSE

\* One entry into the function through its decorators: ensure_connection,
\* the pid check, and the choice of the execution target.
QueryEnter(t) ==
    /\ qry[t].active /\ qry[t].pc = "enter"
    /\ \E cfg \in ConfigUrls(db[t]) :
         LET q == qry[t]
             e == ensure_connection(db[t], curpid, cfg)
             f == IF e.err = "none" /\ e.db.pid # curpid
                  THEN set_connection(e.db, e.db.url, curpid)
                  ELSE e
         IN
         /\ db' = LocalStore(t, f.db)
         /\ IF f.err # "none"
            THEN Finish(t, q, f.err, << >>, NoOutcome, 0)
            ELSE /\ qry' = [ qry EXCEPT ![t] =
                               [ q EXCEPT !.pc = "run",
                                          !.target = f.db.active_transaction ] ]
                 /\ UNCHANGED last
    /\ UNCHANGED <<txs, nextId, curpid, proxy, scope, pure>>

\* @retry(exceptions=(SessionExpired, ServiceUnavailable), tries=4, delay=0):
\* the frame after a transient error left the function body. The inner loop
\* retries the re-invocation; when it gives up, the error leaves the outer
\* body through its except clause and the outer loop counts one failure.
AfterRaise(q) ==
    IF q.layer = "inner" /\ q.inner_tries > 1
    THEN [ q EXCEPT !.inner_tries = @ - 1, !.pc = "enter" ]
    ELSE IF q.outer_tries > 1
    THEN [ q EXCEPT !.layer = "outer", !.outer_tries = @ - 1, !.inner_tries = 0,
                    !.pc = "enter" ]
    ELSE [ q EXCEPT !.pc = "raise" ]

\* One execution of the query, session.run(query, params), and what the
\* try statement does with its outcome.
QueryRun(t) ==
    /\ qry[t].active /\ qry[t].pc = "run"
    /\ \E o \in RunOutcomes :
         LET q == [ qry[t] EXCEPT
                      !.execs = @ + 1,
                      !.inner_execs = IF qry[t].layer = "inner" THEN @ + 1 ELSE @,
                      !.escaped = @ \/ (qry[t].in_tx # 0 /\ qry[t].target = 0) ]
             handle == db[t].driver
             res == IF CurRo(q) THEN object_resolution(ServerRows)
                    ELSE [ err |-> "none", rows |-> ServerRows, v |-> Prim ]
         IN
         CASE o.kind = "ok" ->
                /\ Finish(t, q, res.err, res.rows, o, handle)
                /\ UNCHANGED db
           [] o.kind = "ClientError" ->
                /\ Finish(t, q, classify(o, q.hu), << >>, o, handle)
                /\ UNCHANGED db
           [] OTHER ->
                IF CurRoe(q)
                THEN \* reconnect, then re-invoke self.cypher_query
                     /\ db' = LocalStore(t, set_connection(db[t], db[t].url, curpid).db)
                     /\ qry' = [ qry EXCEPT ![t] =
                                   [ q EXCEPT !.layer = "inner", !.pc = "enter",
                                              !.inner_tries = RetryTries,
                                              !.inner_execs = 0 ] ]
                     /\ last' = [ last EXCEPT !.handle = handle ]
                ELSE LET n == AfterRaise(q) IN
                     /\ UNCHANGED db
                     /\ IF n.pc = "raise"
                        THEN Finish(t, q, o.kind, << >>, o, handle)
                        ELSE /\ qry' = [ qry EXCEPT ![t] = n ]
                             /\ last' = [ last EXCEPT !.handle = handle ]
    /\ UNCHANGED <<txs, nextId, curpid, proxy, scope, pure>>

\* ------------------------------------------------------- TransactionProxy
\* db.transaction, db.write_transaction, db.read_transaction: a new proxy.
Transaction(t) ==
    /\ Outside(t)
    /\ \A u \in AllThreads : ~scope[u].inside
    /\ \E am \in AccessModes : proxy' = NewProxy(am)
    /\ last' = MkLast(t, "transaction", "none")
    /\ UNCHANGED <<db, txs, nextId, curpid, scope, qry, pure>>

\* self.bookmarks = ...: the caller hands bookmarks to the proxy.
SetBookmarks(t) ==
    /\ Outside(t)
    /\ \E bm \in BookmarkArgs \ {NoBookmarks} : proxy' = [ proxy EXCEPT !.bookmarks = bm ]
    /\ last' = MkLast(t, "set_bookmarks", "none")
    /\ UNCHANGED <<db, txs, nextId, curpid, scope, qry, pure>>

\* __enter__ that leaves self.bookmarks as it found it.
entered_keeping_bookmarks(p, err) == p

\* The proxy after __enter__ ended with err: self.bookmarks = None follows
\* the begin that was given bookmarks.
entered(p, err) ==
    IF err = "none" THEN [ p EXCEPT !.bookmarks = NoBookmarks ] ELSE p

\* TransactionProxy.__enter__
Enter(t) ==
    /\ Outside(t)
    /\ \E out \in DriverOutcomes, cfg \in ConfigUrls(db[t]) :
         LET e == ensure_connection(db[t], curpid, cfg)
             r == IF e.err # "none"
                  THEN [ err |-> e.err, db |-> e.db, handle |-> 0,
                         made |-> FALSE, opened |-> FALSE ]
                  ELSE begin(e.db, curpid, cfg, out, nextId)
         IN
         /\ r.made => nextId <= MaxTx
         /\ db' = LocalStore(t, r.db)
         /\ txs' = IF r.opened THEN [ txs EXCEPT ![nextId] = "open" ] ELSE txs
         /\ nextId' = IF r.made THEN nextId + 1 ELSE nextId
         /\ proxy' = entered(proxy, r.err)
         /\ scope' = [ scope EXCEPT ![t] =
                         IF r.err = "none"
                         THEN [ scope[t] EXCEPT !.inside = TRUE, !.tx = nextId,
                                                !.used = proxy.bookmarks ]
                         ELSE NoScope ]
         /\ last' = [ MkLast(t, "enter", r.err) EXCEPT
                        !.handle = r.handle, !.drv = Drv(r, out),
                        !.am = proxy.access_mode,
                        !.bm = proxy.bookmarks ]
    /\ UNCHANGED <<curpid, qry, pure>>

\* TransactionProxy.__exit__(None, None, None): the body completed.
ExitNormal(t) ==
    /\ Ready(t) /\ scope[t].inside
    /\ \E out \in DriverOutcomes, cfg \in ConfigUrls(db[t]) :
         LET r == commit(db[t], curpid, cfg, out) IN
         /\ db' = LocalStore(t, r.db)
         /\ txs' = EndTx(r.tx, r.status)
         /\ proxy' = IF r.err = "none" THEN [ proxy EXCEPT !.last_bookmark = r.ret ]
                     ELSE proxy
         /\ last' = [ MkLast(t, "exit", r.err) EXCEPT
                        !.handle = r.handle, !.drv = Drv(r, out), !.ret = r.ret,
                        !.scope_tx = scope[t].tx ]
         /\ scope' = [ scope EXCEPT ![t] =
                         IF scope[t].pc = "exit" /\ r.err = "none"
                         THEN [ NoScope EXCEPT !.pc = "return", !.arg = scope[t].arg,
                                               !.used = scope[t].used, !.own = r.ret ]
                         ELSE NoScope ]
    /\ UNCHANGED <<nextId, curpid, qry, pure>>

\* The error that leaves __exit__ when the body raised b and rollback ended
\* with rerr: rollback's own error, else UniqueProperty for exactly
\* ClientError with the constraint code, else the body's error re-raised.
ExitError(b, rerr) ==
    IF rerr # "none" THEN rerr
    ELSE IF b.type = "ClientError" /\ b.code = ConstraintCode THEN "UniqueProperty"
    ELSE b.type

\* TransactionProxy.__exit__(exc_type, exc_value, traceback): the body raised.
ExitRaise(t) ==
    /\ Ready(t) /\ scope[t].inside
    /\ \E b \in BodyErrors, out \in DriverOutcomes, cfg \in ConfigUrls(db[t]) :
         LET r == rollback(db[t], curpid, cfg, out) IN
         /\ db' = LocalStore(t, r.db)
         /\ txs' = EndTx(r.tx, r.status)
         /\ last' = [ MkLast(t, "exit", ExitError(b, r.err)) EXCEPT
                        !.handle = r.handle, !.drv = Drv(r, out), !.body_err = b,
                        !.scope_tx = scope[t].tx ]
    /\ scope' = [ scope EXCEPT ![t] = NoScope ]
    /\ UNCHANGED <<nextId, curpid, proxy, qry, pure>>

\* -------------------------------------------------------------------- Next
Next ==
    \E t \in MainThreads :
        \/ SetConnection(t)
        \/ Begin(t)
        \/ Commit(t)
        \/ Rollback(t)
        \/ Fork(t)
        \/ QueryCall(t)
        \/ QueryEnter(t)
        \/ QueryRun(t)
        \/ Enter(t)
        \/ ExitNormal(t)
        \/ ExitRaise(t)

Spec == Init /\ [][Next]_vars

\* A second specification, of the scope objects alone: proxies made with each
\* access mode and handed bookmarks, without queries.
NextScopes ==
    \E t \in MainThreads :
        \/ SetConnection(t)
        \/ Begin(t)
        \/ Commit(t)
        \/ Rollback(t)
        \/ Transaction(t)
        \/ SetBookmarks(t)
        \/ Enter(t)
        \/ ExitNormal(t)
        \/ ExitRaise(t)

SpecScopes == Init /\ [][NextScopes]_vars

\* ================================================================== claims
OpenTxs == { i \in 1..MaxTx : txs[i] = "open" }

\* C1: begin called while a transaction is active on the calling thread fails
\* with SystemError, whatever access mode and bookmarks it is given, and the
\* failed call leaves the thread's attributes (active transaction and session
\* among them) and the driver's transactions unchanged.
C1_BeginWhileActiveFails ==
    [][ \A t \in AllThreads :
          (db[t].active_transaction # 0 /\ last'.op = "begin" /\ last'.t = t)
          => /\ last'.err = "SystemError"
             /\ db'[t] = db[t]
             /\ txs' = txs
             /\ nextId' = nextId ]_vars

\* C1 witness: a begin with an access mode and bookmarks has just failed with
\* SystemError while a transaction is active.
C1_Witness ==
    /\ last.op = "begin" /\ last.err = "SystemError"
    /\ last.am = "READ" /\ last.bm # NoBookmarks
    /\ db[last.t].active_transaction # 0

\* C2: after commit or rollback returned or raised, both the active
\* transaction and the session reference of the calling thread are cleared.
C2_IdleAfterCommitOrRollback ==
    last.op \in {"commit", "rollback"}
    => /\ db[last.t].active_transaction = 0
       /\ db[last.t].session = 0

\* C2 witness: the driver's commit raised on an open transaction and the
\* controller is idle.
C2_Witness ==
    /\ last.op = "commit" /\ last.drv \in TransientErrors
    /\ last.err = last.drv
    /\ db[last.t].active_transaction = 0 /\ db[last.t].session = 0

\* C3 (as claimed): in one caller-level cypher_query call with default flags
\* in which every execution so far failed with a transient error, the query
\* has been executed at most 4 times, both retry layers counted together.
C3_AtMostFourExecutions ==
    \A t \in AllThreads :
        (qry[t].active /\ qry[t].hu /\ qry[t].roe /\ ~qry[t].ro)
        => qry[t].execs <= 4

\* C4 (as claimed): a call whose result comes from the execution after a
\* reconnect returns the rows an immediate success would have returned for
\* the same resolve_objects: resolved objects when it is set.
C4_RetryTransparency ==
    (last.op = "cypher_query" /\ last.err = "none" /\ last.layer = "inner")
    => last.rows = IF last.ro THEN object_resolution(ServerRows).rows ELSE ServerRows

\* C5 (as claimed): the re-invocation made after a reconnect executes the
\* query once; a transient failure of that execution leaves the inner layer
\* without another execution by that re-invocation.
C5_ReinvocationExecutesOnce ==
    \A t \in AllThreads : qry[t].active => qry[t].inner_execs <= 1

\* C6 (as claimed): at most one driver transaction is begun and neither
\* committed nor rolled back.
C6_AtMostOneOpenTransaction ==
    Cardinality(OpenTxs) <= 1

\* C7 (as claimed): when the body of an entered scope completed without
\* raising, scope exit has committed the transaction begun at entry and
\* recorded that commit's bookmark as last_bookmark. Stated for the runs the
\* claim is surest of: the process never forked and the driver's commit did
\* not itself raise.
C7_ExitCommitsEntryTransaction ==
    (/\ last.op = "exit" /\ last.body_err = NoBodyErr
     /\ last.drv = "none" /\ curpid = 1)
    => /\ last.err = "none"
       /\ txs[last.scope_tx] = "committed"
       /\ proxy.last_bookmark = last.scope_tx

\* C8 (as claimed): when the body of an entered scope raised, scope exit has
\* rolled back the transaction begun at entry, and raises UniqueProperty if
\* the body's error is exactly ClientError with the constraint-violation
\* code, else the body's error. Stated for the runs the claim is surest of:
\* the process never forked and the driver's rollback did not itself raise.
C8_ExitRollsBackEntryTransaction ==
    (/\ last.op = "exit" /\ last.body_err # NoBodyErr
     /\ last.drv = "none" /\ curpid = 1)
    => /\ txs[last.scope_tx] = "rolled_back"
       /\ last.err = IF /\ last.body_err.type = "ClientError"
                        /\ last.body_err.code = ConstraintCode
                     THEN "UniqueProperty"
                     ELSE last.body_err.type

\* C9: an execution that raises ClientError ends the call at once: with the
\* constraint code it raises UniqueProperty iff the message indicates a
\* uniqueness violation and handle_unique is set, ConstraintValidationFailed
\* otherwise; with any other code the ClientError itself; and the step
\* changes neither the thread's attributes nor the driver's transactions.
C9_ClientErrorClassification ==
    [][ \A t \in AllThreads :
          (qry[t].active /\ qry[t].pc = "run" /\ last'.outcome.kind = "ClientError")
          => /\ ~qry'[t].active
             /\ last'.hu = qry[t].hu
             /\ (last'.err = "UniqueProperty")
                  <=> (/\ last'.outcome.code = ConstraintCode
                       /\ last'.outcome.unique /\ qry[t].hu)
             /\ (last'.err = "ConstraintValidationFailed")
                  <=> (/\ last'.outcome.code = ConstraintCode
                       /\ ~(last'.outcome.unique /\ qry[t].hu))
             /\ (last'.err = "ClientError") <=> (last'.outcome.code # ConstraintCode)
             /\ db' = db
             /\ txs' = txs ]_vars

\* C9 witness: inside an active transaction a uniqueness violation with
\* handle_unique=False ended the call with ConstraintValidationFailed.
C9_Witness ==
    /\ last.op = "cypher_query" /\ last.err = "ConstraintValidationFailed"
    /\ last.outcome.kind = "ClientError" /\ last.outcome.unique /\ ~last.hu
    /\ db[last.t].active_transaction # 0

\* C10 (as claimed): no operation uses on the network a driver, session or
\* transaction handle that was created in a process other than the current.
C10_NoHandleOfAnotherProcess ==
    last.handle # 0 => last.handle = curpid

\* ======================================================================
\* _object_resolution as a pure function of the rows it is given
\* ======================================================================
MaxListLen == 2

SeqsUpTo(S, n) == UNION { [1..k -> S] : k \in 0..n }

\* Cells without nesting: a primitive, raw nodes and relationships with and
\* without a registered class, and an object that is already resolved.
BaseCells ==
    { Prim, RawNode({"Person"}), RawNode({"Ghost"}), RawRel("KNOWS"),
      RawRel("OWNS"), Inflate("Person", RawNode({"Person"})) }

FlatLists == { List(s) : s \in SeqsUpTo(BaseCells, MaxListLen) }
NestedLists == { List(<< l >>) : l \in FlatLists }
Cells == BaseCells \cup FlatLists \cup NestedLists

\* The result lists handed to _object_resolution: one row of one or two
\* columns, or two rows of one column.
RowSets ==
    { << << c >> >> : c \in Cells }
      \cup { << << c, b >> >> : c \in Cells, b \in BaseCells }
      \cup { << << b, c >> >> : b \in BaseCells, c \in Cells }
      \cup { << << a >>, << b >> >> : a \in BaseCells, b \in BaseCells }

NoResolution == [ err |-> "pending", rows |-> << >>, v |-> Prim ]

InitResolve ==
    /\ InitProgram
    /\ pure \in { [ fn |-> "_object_resolution", arg |-> rows, done |-> FALSE,
                    res |-> NoResolution ] : rows \in RowSets }

\* self._object_resolution(result_list)
Resolve ==
    /\ pure.fn = "_object_resolution"
    /\ ~pure.done
    /\ pure' = [ pure EXCEPT !.done = TRUE, !.res = object_resolution(pure.arg) ]
    /\ UNCHANGED <<db, txs, nextId, curpid, proxy, scope, qry, last>>

NextResolve == Resolve

SpecResolve == InitResolve /\ [][NextResolve]_vars

\* A resolution that has returned its rows.
Resolved == pure.fn = "_object_resolution" /\ pure.done /\ pure.res.err = "none"

\* Nesting depth of a cell: 0 for anything but a list.
RECURSIVE Depth(_)
Depth(c) ==
    IF c.k # "list" THEN 0
    ELSE IF c.items = << >> THEN 1
    ELSE 1 + (CHOOSE m \in { Depth(c.items[k]) : k \in 1..Len(c.items) } :
                 \A k \in 1..Len(c.items) : Depth(c.items[k]) <= m)

IsRegisteredNode(c) == c.k = "node" /\ c.labels \in DOMAIN NODE_CLASS_REGISTRY
IsRegisteredNodeList(c) ==
    c.k = "list" /\ c.items # << >> /\ \A k \in 1..Len(c.items) : IsRegisteredNode(c.items[k])

\* C11: a column holding a list of raw nodes with registered label sets is
\* replaced by a list of the same length and the same nesting depth whose
\* k-th element is the inflate result of the k-th node.
C11_NestedResolutionPreservesShape ==
    Resolved =>
        \A i \in 1..Len(pure.arg) : \A j \in 1..Len(pure.arg[i]) :
            LET in == pure.arg[i][j]
                out == pure.res.rows[i][j]
            IN  IsRegisteredNodeList(in) =>
                    /\ out.k = "list"
                    /\ Len(out.items) = Len(in.items)
                    /\ Depth(out) = Depth(in)
                    /\ \A k \in 1..Len(in.items) :
                          out.items[k] = Inflate(NODE_CLASS_REGISTRY[in.items[k].labels], in.items[k])

\* The cells a cell holds at any depth, itself included.
RECURSIVE Contained(_)
Contained(c) ==
    {c} \cup UNION { Contained(c.items[k]) : k \in 1..Len(c.items) }

ContainedInRows(rows) ==
    UNION { UNION { Contained(rows[i][j]) : j \in 1..Len(rows[i]) } : i \in 1..Len(rows) }

IsRaw(c) == c.k \in {"node", "rel"}
Unregistered(c) == IsRaw(c) /\ c.labels \notin DOMAIN NODE_CLASS_REGISTRY

\* C12: given rows that hold no raw node or relationship (primitives,
\* resolved objects and nested lists of them only), _object_resolution
\* returns rows equal to the ones it was given.
C12_IdempotentOnResolved ==
    (pure.fn = "_object_resolution" /\ pure.done
        /\ \A e \in ContainedInRows(pure.arg) : ~IsRaw(e))
    => (pure.res.err = "none" /\ pure.res.rows = pure.arg)

\* C13: given rows that hold, at any depth, a raw node or relationship
\* without a registered class, _object_resolution raises
\* NodeClassNotDefined carrying such a node of the rows, or
\* RelationshipClassNotDefined carrying such a relationship of the rows;
\* it neither raises anything else nor returns.
C13_UnregisteredEntityRaises ==
    (pure.fn = "_object_resolution" /\ pure.done)
    => LET bad == { e \in ContainedInRows(pure.arg) : Unregistered(e) } IN
       bad # {} =>
           /\ pure.res.err \in {"NodeClassNotDefined", "RelationshipClassNotDefined"}
           /\ pure.res.v \in bad
           /\ pure.res.err = "NodeClassNotDefined" <=> pure.res.v.k = "node"

\* An unregistered node two lists deep was reported.
C13_Witness ==
    /\ pure.fn = "_object_resolution" /\ pure.done
    /\ \E c \in NestedLists : pure.arg = << << Prim, c >> >> /\ RawNode({"Ghost"}) \in Contained(c)
    /\ pure.res.err = "NodeClassNotDefined"
    /\ pure.res.v = RawNode({"Ghost"})

\* ======================================================================
\* Two threads using the module-level Database
\* ======================================================================
\* db.begin() by a thread.
ThreadBegin(t) == BeginWith(t, "None", NoBookmarks)

\* db.cypher_query(query) by a thread, with the default flags
\* (handle_unique=True, retry_on_session_expire=False,
\* resolve_objects=False), while the other thread is not inside a call of
\* its own.
ThreadQueryCall(t) ==
    /\ \A u \in AllThreads \ {t} : Ready(u)
    /\ QueryCallWith(t, TRUE, FALSE, FALSE)

NextThreads ==
    \E t \in AllThreads :
        \/ SetConnection(t)
        \/ ThreadBegin(t)
        \/ Commit(t)
        \/ Rollback(t)
        \/ ThreadQueryCall(t)
        \/ QueryEnter(t)
        \/ QueryRun(t)

SpecThreads == Init /\ [][NextThreads]_vars

\* Thread t took the step: its call frame moved, or no frame moved and the
\* operation recorded is its own.
Acted(t) ==
    \/ qry'[t] # qry[t]
    \/ last'.t = t /\ \A u \in AllThreads : qry'[u] = qry[u]

WrapperBookmarkArgs == { NoBookmarks } \cup { << b >> : b \in 1..MaxTx }

\* wrapper(*args, bookmarks=...): self.bookmarks = kwargs.pop("bookmarks", None)
WrapperCall(t) ==
    /\ Outside(t) /\ scope[t].pc = "none"
    /\ \E bm \in WrapperBookmarkArgs :
         /\ proxy' = [ proxy EXCEPT !.bookmarks = bm ]
         /\ scope' = [ scope EXCEPT ![t] = [ NoScope EXCEPT !.pc = "called", !.arg = bm ] ]
    /\ last' = MkLast(t, "wrapper_call", "pending")
    /\ UNCHANGED <<db, txs, nextId, curpid, qry, pure>>

\* with self: __enter__
WrapperEnter(t) == scope[t].pc = "called" /\ Enter(t)

\* result = func(*args, **kwargs); self.last_bookmark = None
WrapperBody(t) ==
    /\ scope[t].pc = "called" /\ scope[t].inside
    /\ proxy' = [ proxy EXCEPT !.last_bookmark = 0 ]
    /\ scope' = [ scope EXCEPT ![t].pc = "exit" ]
    /\ UNCHANGED <<db, txs, nextId, curpid, qry, last, pure>>

\* func raised: __exit__ with the exception, which leaves the wrapper.
WrapperRaise(t) == scope[t].pc = "called" /\ ExitRaise(t)

\* the with-block ends: __exit__(None, None, None)
WrapperExit(t) == scope[t].pc = "exit" /\ ExitNormal(t)

\* return result, self.last_bookmark
WrapperReturn(t) ==
    /\ scope[t].pc = "return"
    /\ scope' = [ scope EXCEPT ![t] = NoScope ]
    /\ last' = [ MkLast(t, "wrapper_return", "none") EXCEPT !.ret = proxy.last_bookmark ]
    /\ UNCHANGED <<db, txs, nextId, curpid, proxy, qry, pure>>

NextWrapper ==
    \E t \in AllThreads :
        \/ WrapperCall(t)
        \/ WrapperEnter(t)
        \/ WrapperBody(t)
        \/ WrapperRaise(t)
        \/ WrapperExit(t)
        \/ WrapperReturn(t)

SpecWrapper == Init /\ [][NextWrapper]_vars

\* C15: with two threads calling the same wrapped callable, each call's
\* transaction is begun with exactly the bookmarks passed to that call, and
\* the new bookmark each call returns is the one its own commit produced.
C15_BookmarkIsolation ==
    [][ \A t \in AllThreads :
          /\ (scope[t].pc = "called" /\ ~scope[t].inside /\ scope'[t].inside)
                => scope'[t].used = scope[t].arg
          /\ (scope[t].pc = "return" /\ scope'[t].pc = "none")
                => last'.ret = scope[t].own
      ]_vars

\* C16: a scope entry that finds pending bookmarks begins its transaction
\* with exactly those bookmarks and the scope's access mode and leaves none
\* pending, so that no later entry begins with them again; an entry that
\* finds none begins a plain transaction with the scope's access mode; an
\* entry that raises begins no transaction and leaves the pending bookmarks
\* as they were.
C16_PendingBookmarksOneShot ==
    [][ last'.op = "enter" =>
          LET t == last'.t IN
          IF last'.err = "none"
          THEN /\ scope'[t].inside /\ txs'[scope'[t].tx] = "open"
               /\ scope'[t].used = proxy.bookmarks
               /\ last'.bm = proxy.bookmarks
               /\ last'.am = proxy.access_mode
               /\ proxy'.bookmarks = NoBookmarks
          ELSE /\ txs' = txs
               /\ proxy' = proxy
      ]_vars

\* A scope made for reading was entered with bookmarks pending: its
\* transaction is open and nothing is pending any more.
C16_Witness ==
    /\ last.op = "enter" /\ last.err = "none"
    /\ last.bm # NoBookmarks /\ last.am = "READ"
    /\ scope[last.t].inside /\ scope[last.t].used = last.bm
    /\ proxy.bookmarks = NoBookmarks

\* ======================================================================
\* set_connection: from the URL text to the connection parameters
\* ======================================================================
\* A str is a sequence of one-character strings; indices are Python's.
Min(a, b) == IF a < b THEN a ELSE b
Max(a, b) == IF a > b THEN a ELSE b

\* s.find(c) and s.rfind(c): -1 when c does not occur.
Find(s, c) ==
    IF \E i \in 1..Len(s) : s[i] = c
    THEN (CHOOSE i \in 1..Len(s) : s[i] = c /\ \A j \in 1..(i - 1) : s[j] # c) - 1
    ELSE -1

RFind(s, c) ==
    IF \E i \in 1..Len(s) : s[i] = c
    THEN (CHOOSE i \in 1..Len(s) : s[i] = c /\ \A j \in (i + 1)..Len(s) : s[j] # c) - 1
    ELSE -1

\* s[a:b], negative indices counted from the end.
Slice(s, a, b) ==
    LET n == Len(s)
        lo == IF a < 0 THEN Max(a + n, 0) ELSE Min(a, n)
        hi == IF b < 0 THEN Max(b + n, 0) ELSE Min(b, n)
    IN  IF lo >= hi THEN << >> ELSE SubSeq(s, lo + 1, hi)

StartsWith(s, p) == Len(p) <= Len(s) /\ SubSeq(s, 1, Len(p)) = p

\* s.replace(c, "", 1)
RemoveFirst(s, c) ==
    LET i == Find(s, c) IN
    IF i = -1 THEN s ELSE Slice(s, 0, i) \o Slice(s, i + 1, Len(s))

\* s.replace(old, new): every non-overlapping occurrence, left to right.
\* An empty old occurs here only with an empty new, which changes nothing.
RECURSIVE Replace(_, _, _)
Replace(s, old, new) ==
    IF old = << >> \/ s = << >> THEN s
    ELSE IF StartsWith(s, old)
         THEN new \o Replace(Slice(s, Len(old), Len(s)), old, new)
         ELSE << Head(s) >> \o Replace(Tail(s), old, new)

Letters ==
    { "a", "b", "c", "d", "e", "f", "g", "h", "i", "j", "k", "l", "m",
      "n", "o", "p", "q", "r", "s", "t", "u", "v", "w", "x", "y", "z" }
Digits == { "0", "1", "2", "3", "4", "5", "6", "7", "8", "9" }
HexDigits == Digits \cup { "A", "B", "C", "D", "E", "F", "a", "b", "c", "d", "e", "f" }

\* urllib.parse.quote(s): "/" and the unreserved characters are kept, any
\* other character becomes its percent escape.
QuoteChar(c) ==
    CASE c = "@" -> << "%", "4", "0" >>
      [] c = ":" -> << "%", "3", "A" >>
      [] c = "%" -> << "%", "2", "5" >>
      [] c = "+" -> << "%", "2", "B" >>
      [] OTHER -> << c >>

RECURSIVE quote(_)
quote(s) == IF s = << >> THEN << >> ELSE QuoteChar(Head(s)) \o quote(Tail(s))

\* The character a percent escape stands for; "\\x" is any byte other than
\* the ones listed.
Chr(x, y) ==
    CASE << x, y >> = << "4", "0" >> -> "@"
      [] << x, y >> = << "3", "A" >> -> ":"
      [] << x, y >> = << "2", "5" >> -> "%"
      [] << x, y >> = << "2", "F" >> -> "/"
      [] << x, y >> = << "2", "B" >> -> "+"
      [] OTHER -> "\\x"

\* urllib.parse.unquote(s): one pass, each %XX replaced by its character.
RECURSIVE unquote(_)
unquote(s) ==
    IF s = << >> THEN << >>
    ELSE IF s[1] = "%" /\ Len(s) >= 3 /\ s[2] \in HexDigits /\ s[3] \in HexDigits
         THEN << Chr(s[2], s[3]) >> \o unquote(Slice(s, 3, Len(s)))
         ELSE << s[1] >> \o unquote(Tail(s))

\* The index of the first character of s that is in set cs, Len(s) if none.
FirstOf(s, cs) ==
    IF \E i \in 1..Len(s) : s[i] \in cs
    THEN (CHOOSE i \in 1..Len(s) : s[i] \in cs /\ \A j \in 1..(i - 1) : s[j] \notin cs) - 1
    ELSE Len(s)

\* urllib.parse.urlparse(url): scheme, netloc and path. The scheme is what
\* precedes the first ":" when that is a letter followed by letters, digits
\* and "+-."; the netloc follows "//" up to the first of "/?#"; the path
\* ends at the first of "?#".
urlparse(url) ==
    LET i == Find(url, ":")
        has_scheme == /\ i > 0
                      /\ url[1] \in Letters
                      /\ \A k \in 1..i : url[k] \in Letters \cup Digits \cup {"+", "-", "."}
        scheme == IF has_scheme THEN Slice(url, 0, i) ELSE << >>
        rest == IF has_scheme THEN Slice(url, i + 1, Len(url)) ELSE url
        has_netloc == StartsWith(rest, << "/", "/" >>)
        after == IF has_netloc THEN Slice(rest, 2, Len(rest)) ELSE rest
        cut == IF has_netloc THEN FirstOf(after, {"/", "?", "#"}) ELSE 0
        tail == Slice(after, cut, Len(after))
    IN  [ scheme |-> scheme,
          netloc |-> Slice(after, 0, cut),
          path |-> Slice(tail, 0, FirstOf(tail, {"?", "#"})) ]

\* s.strip("/")
RECURSIVE strip(_)
strip(s) ==
    IF s = << >> THEN s
    ELSE IF Head(s) = "/" THEN strip(Tail(s))
    ELSE IF s[Len(s)] = "/" THEN strip(Slice(s, 0, Len(s) - 1))
    ELSE s

\* How the scheme names are spelled.
Spelled ==
    ("bolt" :> << "b", "o", "l", "t" >>)
      @@ ("bolt+s" :> << "b", "o", "l", "t", "+", "s" >>)
      @@ ("bolt+ssc" :> << "b", "o", "l", "t", "+", "s", "s", "c" >>)
      @@ ("bolt+routing" :> << "b", "o", "l", "t", "+", "r", "o", "u", "t", "i", "n", "g" >>)
      @@ ("neo4j" :> << "n", "e", "o", "4", "j" >>)
      @@ ("neo4j+s" :> << "n", "e", "o", "4", "j", "+", "s" >>)
      @@ ("neo4j+ssc" :> << "n", "e", "o", "4", "j", "+", "s", "s", "c" >>)
      @@ ("http" :> << "h", "t", "t", "p" >>)

\* parsed_url.scheme in valid_schemas
SchemeAllowed(scheme) == \E n \in valid_schemas : Spelled[n] = scheme

\* set_connection(url) up to the point where the driver is made: the error
\* raised ("none" if none) and the values the driver and the database name
\* are made from.
connection_parameters(url0) ==
    LET p_start == Find(RemoveFirst(url0, ":"), ":") + 2
        p_end == RFind(url0, "@")
        password0 == Slice(url0, p_start, p_end)
        url == Replace(url0, password0, quote(password0))
        parsed_url == urlparse(url)
        at == RFind(parsed_url.netloc, "@")
        credentials == Slice(parsed_url.netloc, 0, at)
        hostname == Slice(parsed_url.netloc, at + 1, Len(parsed_url.netloc))
        colon == Find(credentials, ":")
        database_name == strip(parsed_url.path)
        failed == [ err |-> "ValueError", url |-> url, username |-> << >>,
                    password |-> << >>, hostname |-> << >>, database_name |-> << >> ]
    IN  IF at > -1 /\ SchemeAllowed(parsed_url.scheme)
        THEN \* username, password = credentials.split(":") needs exactly one ":"
             IF colon = -1 \/ colon # RFind(credentials, ":")
             THEN failed
             ELSE [ err |-> "none", url |-> url,
                    username |-> Slice(credentials, 0, colon),
                    password |-> unquote(Slice(credentials, colon + 1, Len(credentials))),
                    hostname |-> hostname,
                    database_name |-> IF database_name = << >>
                                      THEN Spelled[DEFAULT_DATABASE]
                                      ELSE database_name ]
        ELSE failed

MaxPwLen == 2

\* The characters passwords are made of here: one unreserved character and
\* the ones that have a meaning in a URL.
PwChars == { "p", "@", ":", "%", "/" }

Passwords == SeqsUpTo(PwChars, MaxPwLen) \ { << >> }

\* The percent-encoding of a password by whoever writes the URL: as quote,
\* with "/" escaped as well.
RECURSIVE PercentEncode(_)
PercentEncode(s) ==
    IF s = << >> THEN << >>
    ELSE (IF Head(s) = "/" THEN << "%", "2", "F" >> ELSE QuoteChar(Head(s)))
           \o PercentEncode(Tail(s))

\* Password fields of a URL: a password written percent-encoded ...
EncodedFields == { PercentEncode(pw) : pw \in Passwords }
\* ... or written as it is.
RawFields == Passwords

UrlParts ==
    [ scheme : {"bolt", "neo4j+s", "http"},
      cred : BOOLEAN,
      field : EncodedFields \cup RawFields,
      host : { << "h" >>, << "h", ":", "7" >> },
      path : { << >>, << "/" >>, << "/", "d" >> } ]

\* The URL text made of the parts, with user name "u".
UrlText(a) ==
    Spelled[a.scheme] \o << ":", "/", "/" >>
      \o (IF a.cred THEN << "u", ":" >> \o a.field \o << "@" >> ELSE << >>)
      \o a.host \o a.path

NoParameters ==
    [ err |-> "pending", url |-> << >>, username |-> << >>, password |-> << >>,
      hostname |-> << >>, database_name |-> << >> ]

InitUrl ==
    /\ InitProgram
    /\ pure \in { [ fn |-> "set_connection", arg |-> a, done |-> FALSE,
                    res |-> NoParameters ] :
                  a \in { x \in UrlParts : ~x.cred => x.field = << "p" >> } }

\* set_connection(url) reads the URL.
ParseUrl ==
    /\ pure.fn = "set_connection"
    /\ ~pure.done
    /\ pure' = [ pure EXCEPT !.done = TRUE, !.res = connection_parameters(UrlText(pure.arg)) ]
    /\ UNCHANGED <<db, txs, nextId, curpid, proxy, scope, qry, last>>

NextUrl == ParseUrl

SpecUrl == InitUrl /\ [][NextUrl]_vars

\* C17: for every URL with an allowed scheme and credentials whose password
\* field is percent-encoded, set_connection extracts the percent-decoded
\* password, the host and the database name (the default when the path is
\* empty); for every URL with a scheme outside the allow-list or without
\* credentials it raises ValueError.
C17_UrlParsing ==
    (pure.fn = "set_connection" /\ pure.done) =>
        LET a == pure.arg
            r == pure.res
        IN  /\ (a.cred /\ a.scheme \in valid_schemas /\ a.field \in EncodedFields) =>
                  /\ r.err = "none"
                  /\ r.password = unquote(a.field)
                  /\ r.hostname = a.host
                  /\ r.database_name = IF strip(a.path) = << >>
                                       THEN Spelled[DEFAULT_DATABASE]
                                       ELSE strip(a.path)
            /\ (~a.cred \/ a.scheme \notin valid_schemas) => r.err = "ValueError"

\* ======================================================================
\* Claims on the Database state, continued
\* ======================================================================
\* C18 (as claimed): every execution made for a cypher_query call that was
\* made with a transaction active runs against that transaction, the
\* re-execution after a transient error included: in the process that
\* began the transaction, whenever such a call is about to execute the
\* query, its target is the transaction active when it was called.
C18_ExecutionsStayInTransaction ==
    \A t \in AllThreads :
        (curpid = 1 /\ qry[t].active /\ qry[t].pc = "run" /\ qry[t].in_tx # 0)
            => qry[t].target = qry[t].in_tx

\* C19 (as claimed): between operations of a thread, its session reference
\* is set if and only if its active-transaction reference is set.
C19_SessionTransactionPairing ==
    \A t \in AllThreads :
        Ready(t) => (db[t].session # 0 <=> db[t].active_transaction # 0)

\* C20: a set_connection that fails (scheme outside the list, or no
\* credentials), called directly or on behalf of another operation, leaves
\* every attribute of the thread as it was: url, driver, pid, database
\* name, session and active transaction; the other thread's too. (A
\* ValueError that is not the body's own comes from set_connection.)
C20_FailedSetConnectionChangesNothing ==
    [][ (last'.err = "ValueError" /\ last'.body_err = NoBodyErr) => db' = db ]_vars

\* A direct set_connection has just failed on a thread that has a
\* connection, a session and a transaction active.
C20_Witness ==
    /\ last.op = "set_connection" /\ last.err = "ValueError"
    /\ db[last.t].url # NoUrl
    /\ db[last.t].session # 0
    /\ db[last.t].active_transaction # 0
====
